---- MODULE Spec2Model ----
(***************************************************************************)
(* A model of the quantum tunnelling simulation service:                   *)
(*   - the simulation engine of app/physics/calculator.py, in its binary   *)
(*     (quantum_tunneling_simulation_binary) and JSON                      *)
(*     (quantum_wave_packet_simulation) variants, as a step machine that   *)
(*     follows the statements of the functions in order;                   *)
(*   - the job store of app/main.py (batch files under DATA_DIR).          *)
(*                                                                         *)
(* Numbers.  Positions, times and potentials are exact rationals kept as   *)
(* integers: a grid position is kept multiplied by N (x_i * N =            *)
(* xmin*N + i*(xmax - xmin)), times are multiples of one tick.  The values *)
(* of the wavefunction are not computed: the value of component i of the   *)
(* wavefunction at time step s is the token <<part, s, i>>, which is all   *)
(* the layout, ordering and counting properties need.                      *)
(***************************************************************************)
EXTENDS Integers, Sequences, FiniteSets, TLC

VARIABLES
    req,             \* the arguments of the running simulation call
    pc,              \* the statement the call has reached
    x_full,          \* the grid np.linspace returned (positions times N)
    V,               \* the potential array
    nan,             \* TRUE when Psi0 (and so every frame) holds NaN
    eigh_calls,      \* number of calls of np.linalg.eigh in this call
    num_time_steps,  \* the local num_time_steps once resolved, <<>> before
    downsample_stride,
    step,            \* the loop variable of the time evolution loop
    frames,          \* frames / time_evolution collected so far
    result,          \* the value returned (bytes, or the JSON dictionary)
    err,             \* the exception that ended the call, "" if none
    files,           \* DATA_DIR: file name -> content (float32 words)
    issued,          \* responses of the job endpoint, in request order
    resp,            \* the response of the last HTTP request
    mtime,           \* file name -> modification time, in minutes
    now              \* the clock, in minutes

simVars == <<req, pc, x_full, V, nan, eigh_calls, num_time_steps,
             downsample_stride, step, frames, result, err>>
storeVars == <<files, issued, resp, mtime, now>>
vars == <<req, pc, x_full, V, nan, eigh_calls, num_time_steps,
          downsample_stride, step, frames, result, err, files, issued, resp,
          mtime, now>>

----------------------------------------------------------------------------
(* Bounds of the model *)

MaxN == 4          \* largest N of a request
MaxX == 2          \* the grid is [-MaxX, MaxX]
MaxSteps == 5      \* largest explicit num_time_steps
MaxFrames == 2     \* largest max_frames
MaxJobs == 2       \* number of job requests served
MaxTime == 2       \* the clock runs from 0 to MaxTime minutes

(* Program constants *)

BATCH_SIZE == 100

None == <<>>
Some(v) == <<v>>
IsNone(o) == o = <<>>
Val(o) == o[1]

----------------------------------------------------------------------------
(* Python / numpy primitives *)

Abs(a) == IF a < 0 THEN -a ELSE a

\* int(a / b) for b # 0: the float quotient truncated toward zero
IntTrunc(a, b) ==
    LET q == Abs(a) \div Abs(b)
    IN  IF (a < 0) # (b < 0) THEN -q ELSE q

\* a // b for b > 0 (floor division)
FloorDiv(a, b) == a \div b

Min(a, b) == IF a < b THEN a ELSE b

\* np.linspace(xmin, xmax, N + 1), every position multiplied by N
\* (defined for N >= 1; N + 1 = 1 sample gives just xmin, 0 samples nothing)
linspace(xmin, xmax, N) ==
    IF N >= 1 THEN [i \in 1..(N + 1) |-> xmin * N + (i - 1) * (xmax - xmin)]
    ELSE IF N = 0 THEN <<0>>
    ELSE <<>>

\* a[1:-1]
Inner(a) == IF Len(a) <= 2 THEN <<>> ELSE SubSeq(a, 2, Len(a) - 1)

----------------------------------------------------------------------------
(* The requests the model draws *)

Modes == {"binary", "json"}
Ns == (-2)..MaxN
Sigmas == {-1, 0, 1}
Momenta == {0, 2}
Masses == {1}
BarrierEdges == (-1)..1
Dts == {0, 1, 2}
TMaxs == {-1, MaxSteps, 10}

\* (num_time_steps, dt, t_max): an explicit step count, or None with t_max
TimeInputs ==
    {[num_time_steps |-> Some(k), dt |-> d, t_max |-> MaxSteps] :
        k \in (-1)..MaxSteps, d \in Dts}
    \cup {[num_time_steps |-> None, dt |-> d, t_max |-> t] :
            d \in Dts, t \in TMaxs}

\* max_frames: a parameter of the binary function only
MaxFramesOf(mode) ==
    IF mode = "binary" THEN {Some(f) : f \in 0..MaxFrames} ELSE {None}

\* the arguments of one call
Request(m, n, ms, p, sg, bs, be, ti, mf) ==
    [mode |-> m, N |-> n, xmin |-> -MaxX, xmax |-> MaxX, mass |-> ms,
     momentum |-> p, sigma |-> sg, barrier_start |-> bs, barrier_end |-> be,
     dt |-> ti.dt, t_max |-> ti.t_max,
     num_time_steps |-> ti.num_time_steps, max_frames |-> mf]

----------------------------------------------------------------------------
(* The simulation engine, statement by statement *)

\* V0 = momentum**2 / (2 * mass)
BarrierHeight(r) == (r.momentum * r.momentum) \div (2 * r.mass)

\* a faulty variant of InBarrier: the closed interval
InBarrierClosed(xN, r) ==
    xN >= r.barrier_start * r.N /\ xN <= r.barrier_end * r.N

\* x > barrier_start and x < barrier_end, x given multiplied by N (N >= 1)
InBarrier(xN, r) ==
    xN > r.barrier_start * r.N /\ xN < r.barrier_end * r.N

\* V = zeros_like(points); V[i] = V0 where the point is in the barrier
Potential(points, r) ==
    [i \in 1..Len(points) |->
        IF InBarrier(points[i], r) THEN BarrierHeight(r) ELSE 0]

\* a faulty variant of PotentialGrid: the interior grid in both functions
PotentialGridInner(r, xs) == Inner(xs)

\* the grid the potential is built on: x_inner (binary), x (JSON)
PotentialGrid(r, xs) == IF r.mode = "binary" THEN Inner(xs) ELSE xs

\* int(t_max / dt), or the explicit num_time_steps
StepCount(r) ==
    IF IsNone(r.num_time_steps) THEN IntTrunc(r.t_max, r.dt)
    ELSE Val(r.num_time_steps)

\* the downsampling stride of the binary function (max_frames # 0 when used)
Stride(S, F) == IF S > F THEN FloorDiv(S, F) ELSE 1

\* a faulty variant of Frame: the time of the end of the step
FrameTimeAfterStep(s, r) == [time |-> (s + 1) * r.dt, step |-> s]

\* one collected frame: the wavefunction at t = step * dt
Frame(s, r) == [time |-> s * r.dt, step |-> s]

Raise(e) ==
    /\ err' = e
    /\ pc' = "failed"

\* x_full = np.linspace(xmin, xmax, N + 1); dx = x_full[1] - x_full[0]
CreateGrid ==
    /\ pc = "start"
    /\ IF req.N + 1 < 0
         THEN Raise("ValueError") /\ UNCHANGED x_full
         ELSE /\ x_full' = linspace(req.xmin, req.xmax, req.N)
              /\ IF Len(x_full') < 2
                   THEN Raise("IndexError")
                   ELSE pc' = "potential" /\ UNCHANGED err
    /\ UNCHANGED <<req, V, nan, eigh_calls, num_time_steps,
                   downsample_stride, step, frames, result>>
    /\ UNCHANGED storeVars

BuildPotential ==
    /\ pc = "potential"
    /\ V' = Potential(PotentialGrid(req, x_full), req)
    /\ pc' = "psi0"
    /\ UNCHANGED <<req, x_full, nan, eigh_calls, num_time_steps,
                   downsample_stride, step, frames, result, err>>
    /\ UNCHANGED storeVars

\* Psi0 = exp(-(x - x0)**2 / sigma**2) * ...; Psi0 / sqrt(A): numpy divides
\* by zero without raising, every component becomes NaN
InitialState ==
    /\ pc = "psi0"
    /\ nan' = (req.sigma * req.sigma = 0 /\ Len(Inner(x_full)) > 0)
    /\ pc' = "hamiltonian"
    /\ UNCHANGED <<req, x_full, V, eigh_calls, num_time_steps,
                   downsample_stride, step, frames, result, err>>
    /\ UNCHANGED storeVars

\* H = ... np.diag(np.ones(grid_size - 1), 1) ...: np.ones(-1) raises
Hamiltonian ==
    /\ pc = "hamiltonian"
    /\ IF Len(Inner(x_full)) - 1 < 0
         THEN Raise("ValueError")
         ELSE pc' = "eigh" /\ UNCHANGED err
    /\ UNCHANGED <<req, x_full, V, nan, eigh_calls, num_time_steps,
                   downsample_stride, step, frames, result>>
    /\ UNCHANGED storeVars

\* E, psi = np.linalg.eigh(H), normalisation and projection on the eigenbasis
Eigh ==
    /\ pc = "eigh"
    /\ eigh_calls' = eigh_calls + 1
    /\ pc' = "steps"
    /\ UNCHANGED <<req, x_full, V, nan, num_time_steps,
                   downsample_stride, step, frames, result, err>>
    /\ UNCHANGED storeVars

\* num_time_steps = int(t_max / dt) if None; the stride; frames = []
ResolveSteps ==
    /\ pc = "steps"
    /\ IF IsNone(req.num_time_steps) /\ req.dt = 0
         THEN /\ Raise("ZeroDivisionError")
              /\ UNCHANGED <<num_time_steps, downsample_stride>>
         ELSE /\ num_time_steps' = Some(StepCount(req))
              /\ IF req.mode = "json"
                   THEN /\ downsample_stride' = 1
                        /\ pc' = "loop" /\ UNCHANGED err
                   ELSE IF StepCount(req) > Val(req.max_frames)
                             /\ Val(req.max_frames) = 0
                        THEN /\ Raise("ZeroDivisionError")
                             /\ UNCHANGED downsample_stride
                        ELSE /\ downsample_stride' =
                                    Stride(StepCount(req), Val(req.max_frames))
                             /\ pc' = "loop" /\ UNCHANGED err
    /\ UNCHANGED <<req, x_full, V, nan, eigh_calls, step, frames, result>>
    /\ UNCHANGED storeVars

\* a faulty variant of BreakAfter: the limit tested one frame too late
BreakAfterLate(r, n) == r.mode = "binary" /\ n > Val(r.max_frames)

\* whether the loop leaves by `break` after appending (binary only)
BreakAfter(r, n) == r.mode = "binary" /\ n >= Val(r.max_frames)

\* a faulty variant of LoopFrame: the eigenproblem solved again for every frame
LoopFrameResolving ==
    /\ pc = "loop"
    /\ step < Val(num_time_steps)
    /\ eigh_calls' = eigh_calls + 1
    /\ frames' = Append(frames, Frame(step, req))
    /\ IF BreakAfter(req, Len(frames'))
         THEN pc' = "encode" /\ UNCHANGED step
         ELSE pc' = "loop" /\ step' = step + downsample_stride
    /\ UNCHANGED <<req, x_full, V, nan, num_time_steps,
                   downsample_stride, result, err>>
    /\ UNCHANGED storeVars

\* one iteration of the time evolution loop
LoopFrame ==
    /\ pc = "loop"
    /\ step < Val(num_time_steps)
    /\ frames' = Append(frames, Frame(step, req))
    /\ IF BreakAfter(req, Len(frames'))
         THEN pc' = "encode" /\ UNCHANGED step
         ELSE pc' = "loop" /\ step' = step + downsample_stride
    /\ UNCHANGED <<req, x_full, V, nan, eigh_calls, num_time_steps,
                   downsample_stride, result, err>>
    /\ UNCHANGED storeVars

\* the range is exhausted
LoopExit ==
    /\ pc = "loop"
    /\ step >= Val(num_time_steps)
    /\ pc' = "encode"
    /\ UNCHANGED <<req, x_full, V, nan, eigh_calls, num_time_steps,
                   downsample_stride, step, frames, result, err>>
    /\ UNCHANGED storeVars

\* struct.pack('I', n): four bytes, least significant first
pack_I(n) == [b \in 1..4 |-> <<"u8", (n \div (256 ^ (b - 1))) % 256>>]

\* struct.unpack('I', bytes)[0]
unpack_I(bs) ==
    bs[1][2] + 256 * bs[2][2] + 65536 * bs[3][2] + 16777216 * bs[4][2]

\* array.astype(np.float32).tobytes(): 4 bytes per component, in order;
\* component i of array `part` at step s is the token <<part, s, i>>
tobytes(part, s, M) ==
    [j \in 1..(4 * M) |-> <<"f32", <<part, s, (j - 1) \div 4>>, (j - 1) % 4>>]

\* a faulty variant of WriteFrames: the imaginary part written first
RECURSIVE WriteFramesImagFirst(_, _, _)
WriteFramesImagFirst(buffer, fs, M) ==
    IF fs = <<>> THEN buffer
    ELSE WriteFramesImagFirst(buffer \o tobytes("im", Head(fs).step, M)
                                     \o tobytes("re", Head(fs).step, M),
                              Tail(fs), M)

\* for Psi in frames: buffer.write(real bytes); buffer.write(imag bytes)
RECURSIVE WriteFrames(_, _, _)
WriteFrames(buffer, fs, M) ==
    IF fs = <<>> THEN buffer
    ELSE WriteFrames(buffer \o tobytes("re", Head(fs).step, M)
                            \o tobytes("im", Head(fs).step, M),
                     Tail(fs), M)

\* the payload of quantum_tunneling_simulation_binary
BinaryData(fs, grid_size) ==
    WriteFrames(pack_I(Len(fs)) \o pack_I(grid_size)
                    \o tobytes("x", 0, grid_size),
                fs, grid_size)

\* the dictionary quantum_wave_packet_simulation returns
JsonResult(r, xs, pot, fs) ==
    [x |-> xs, x_inner |-> Inner(xs), potential |-> pot,
     time_evolution |-> fs, barrier_height |-> BarrierHeight(r)]

\* frame_count, the buffer writes and the return (binary); the return (JSON)
Encode ==
    /\ pc = "encode"
    /\ result' = IF req.mode = "binary"
                   THEN BinaryData(frames, Len(Inner(x_full)))
                   ELSE JsonResult(req, x_full, V, frames)
    /\ pc' = "done"
    /\ UNCHANGED <<req, x_full, V, nan, eigh_calls, num_time_steps,
                   downsample_stride, step, frames, err>>
    /\ UNCHANGED storeVars

----------------------------------------------------------------------------
(* quantum_wave_packet_simulation as one call, as the job endpoint uses it *)

\* the exception the call ends with, "" when it returns
SimulationError(r) ==
    IF r.N + 1 < 0 THEN "ValueError"
    ELSE IF Len(linspace(r.xmin, r.xmax, r.N)) < 2 THEN "IndexError"
    ELSE IF Len(Inner(linspace(r.xmin, r.xmax, r.N))) - 1 < 0 THEN "ValueError"
    ELSE IF IsNone(r.num_time_steps) /\ r.dt = 0 THEN "ZeroDivisionError"
    ELSE ""

\* the list built by `for step in range(S): time_evolution.append(...)`:
\* one entry per step 0..S-1, none when S <= 0
TimeEvolution(S, r) ==
    [k \in 1..(IF S > 0 THEN S ELSE 0) |-> Frame(k - 1, r)]

\* the dictionary returned (for a call that raises nothing)
quantum_wave_packet_simulation(r) ==
    LET x == linspace(r.xmin, r.xmax, r.N)
    IN  JsonResult(r, x, Potential(PotentialGrid(r, x), r),
                   TimeEvolution(StepCount(r), r))

----------------------------------------------------------------------------
(* The job store of app/main.py.  A file holds float32 values; its content  *)
(* is kept as the sequence of its 4-byte words, so a length or an offset in *)
(* bytes is 4 times the one in words.  The word of component i of the frame *)
(* of step s computed by the rid-th job request is the token <<rid, s, i>>. *)

JobIds == {"0a1b2c3d", "4e5f6a7b"}
JobNs == 1..3
JobSteps == {0, BATCH_SIZE, BATCH_SIZE + 1}
JobTimeInputs ==
    {[num_time_steps |-> Some(k), dt |-> 1, t_max |-> 2] : k \in JobSteps}
    \cup {[num_time_steps |-> None, dt |-> d, t_max |-> 2] : d \in {0, 2}}
FrameIndexes == {0, BATCH_SIZE}
BatchIndexes == 0..1
GridPoints == 1..2

\* os.path.join(DATA_DIR, f"{job_id}_batch_{batch_idx}.bin")
BatchFile(job_id, batch_idx) == <<job_id, batch_idx>>

\* np.array(result["time_evolution"][k]["wavefunction"], dtype=np.float32)
\* (k counted from 0)
Wavefunction32(rid, res, k) ==
    [i \in 1..Len(res.x_inner) |-> <<rid, res.time_evolution[k + 1].step, i - 1>>]

\* np.concatenate(arrays)
RECURSIVE Concatenate(_)
Concatenate(arrays) ==
    IF Len(arrays) = 0 THEN <<>>
    ELSE IF Len(arrays) = 1 THEN arrays[1]
    ELSE LET h == Len(arrays) \div 2
         IN  Concatenate(SubSeq(arrays, 1, h))
                \o Concatenate(SubSeq(arrays, h + 1, Len(arrays)))

\* a faulty variant of NumBatches: floor instead of ceiling division
NumBatchesFloor(total_frames) == FloorDiv(total_frames, BATCH_SIZE)

\* num_batches = (total_frames + BATCH_SIZE - 1) // BATCH_SIZE
NumBatches(total_frames) == FloorDiv(total_frames + BATCH_SIZE - 1, BATCH_SIZE)

\* batch_array of one batch: the frames start_frame..end_frame-1 concatenated
BatchArray(rid, res, batch_idx) ==
    LET total_frames == Len(res.time_evolution)
        start_frame == batch_idx * BATCH_SIZE
        end_frame == Min(start_frame + BATCH_SIZE, total_frames)
        batch_frames == [j \in 1..(end_frame - start_frame) |->
                            Wavefunction32(rid, res, start_frame + j - 1)]
    IN  Concatenate(batch_frames)

\* for batch_idx in range(num_batches): batch_array.tofile(batch_file);
\* the files written, by name
BatchFiles(job_id, rid, res) ==
    [name \in {BatchFile(job_id, b) :
                 b \in 0..(NumBatches(Len(res.time_evolution)) - 1)} |->
        BatchArray(rid, res, name[2])]

\* the directory after the files `written` were written
WriteFiles(dir, written) ==
    [name \in DOMAIN dir \cup DOMAIN written |->
        IF name \in DOMAIN written THEN written[name] ELSE dir[name]]

\* the modification times after the files `names` were written at time t
Touch(times, names, t) ==
    [name \in DOMAIN times \cup names |->
        IF name \in names THEN t ELSE times[name]]

\* f.seek(offset); f.read(size), offset and size in bytes (multiples of 4)
FileRead(data, offset, size) ==
    SubSeq(data, (offset \div 4) + 1, Min((offset + size) \div 4, Len(data)))

\* GET /batch/{job_id}/{batch_idx}?n=
get_batch(dir, job_id, batch_idx, n) ==
    IF BatchFile(job_id, batch_idx) \notin DOMAIN dir
      THEN [op |-> "get_batch", status |-> 404]
      ELSE LET data == dir[BatchFile(job_id, batch_idx)]
               frame_size == n * 4
           IN  [op |-> "get_batch", status |-> 200, content |-> data,
                X_Frame_Count |-> (4 * Len(data)) \div frame_size,
                X_Start_Frame |-> batch_idx * BATCH_SIZE]

\* GET /frame/{job_id}/{k}?n=   (k >= 0)
get_frame(dir, job_id, k, n) ==
    LET batch_idx == FloorDiv(k, BATCH_SIZE)
        frame_in_batch == k % BATCH_SIZE
        frame_size == n * 4
        offset == frame_in_batch * frame_size
    IN  IF BatchFile(job_id, batch_idx) \notin DOMAIN dir
          THEN [op |-> "get_frame", status |-> 404]
          ELSE LET frame_data ==
                       FileRead(dir[BatchFile(job_id, batch_idx)],
                                offset, frame_size)
               IN  IF 4 * Len(frame_data) < frame_size
                     THEN [op |-> "get_frame", status |-> 404]
                     ELSE [op |-> "get_frame", status |-> 200,
                           content |-> frame_data]

\* POST /api/quantum-tunneling: job_id = str(uuid.uuid4())[:8] is any of the
\* identifiers; the simulation runs with the step count resolved by the
\* handler; an exception leaves the store as it is (HTTP 500)
quantum_tunneling(job_id, n, ti) ==
    /\ pc = "idle"
    /\ Len(issued) < MaxJobs
    /\   LET request == Request("json", n, 1, 2, 1, 0, 1, ti, None)
             rid == Len(issued) + 1
         IN  IF IsNone(request.num_time_steps) /\ request.dt = 0
               THEN /\ resp' = [op |-> "job", status |-> 500,
                                error |-> "ZeroDivisionError"]
                    /\ UNCHANGED <<files, issued, mtime>>
               ELSE LET call == [request EXCEPT
                                   !.num_time_steps = Some(StepCount(request))]
                    IN  IF SimulationError(call) # ""
                          THEN /\ resp' = [op |-> "job", status |-> 500,
                                           error |-> SimulationError(call)]
                               /\ UNCHANGED <<files, issued, mtime>>
                          ELSE LET res == quantum_wave_packet_simulation(call)
                                   written == BatchFiles(job_id, rid, res)
                               IN  /\ files' = WriteFiles(files, written)
                                   /\ mtime' = Touch(mtime, DOMAIN written, now)
                                   /\ resp' =
                                        [op |-> "job", status |-> 200,
                                         job_id |-> job_id,
                                         frame_count |-> Len(res.time_evolution),
                                         n |-> Len(res.x_inner),
                                         dt |-> request.dt,
                                         batch_size |-> BATCH_SIZE]
                                   /\ issued' = Append(issued,
                                        [rid |-> rid, response |-> resp',
                                         written |-> DOMAIN written])
    /\ UNCHANGED now
    /\ UNCHANGED simVars

\* a job request of any of the grid sizes and time inputs
quantum_tunneling_alias ==
    \E job_id \in JobIds, n \in JobNs, ti \in JobTimeInputs :
        quantum_tunneling(job_id, n, ti)

\* the steps of a request whose frames fill one batch file and start a second
StoredSteps == BATCH_SIZE + 1

\* a job request of one grid point and StoredSteps steps: two batch files
SubmitJob ==
    \E job_id \in JobIds :
        quantum_tunneling(job_id, 2,
            [num_time_steps |-> Some(StoredSteps), dt |-> 1, t_max |-> 2])

GetBatch ==
    /\ pc = "idle"
    /\ \E job_id \in JobIds, batch_idx \in BatchIndexes, n \in GridPoints :
         resp' = get_batch(files, job_id, batch_idx, n)
    /\ UNCHANGED <<files, issued, mtime, now>>
    /\ UNCHANGED simVars

GetFrame ==
    /\ pc = "idle"
    /\ \E job_id \in JobIds, k \in FrameIndexes, n \in GridPoints :
         resp' = get_frame(files, job_id, k, n)
    /\ UNCHANGED <<files, issued, mtime, now>>
    /\ UNCHANGED simVars

\* the job_id strings a caller may put in the path of DELETE /api/job/{job_id}
CallerJobIds == JobIds \cup {"*", "0a1b2c3d_batch"}

\* the max_age_minutes a caller passes to POST /api/cleanup
MaxAges == {0, 1}

\* the characters of a job_id string
Chars(job_id) ==
    CASE job_id = "0a1b2c3d" -> <<"0", "a", "1", "b", "2", "c", "3", "d">>
      [] job_id = "4e5f6a7b" -> <<"4", "e", "5", "f", "6", "a", "7", "b">>
      [] job_id = "*" -> <<"*">>
      [] job_id = "0a1b2c3d_batch" ->
            <<"0", "a", "1", "b", "2", "c", "3", "d", "_", "b", "a", "t", "c", "h">>

\* str(n) of a natural number, as characters
RECURSIVE str(_)
str(n) ==
    LET digit == <<"0", "1", "2", "3", "4", "5", "6", "7", "8", "9">>
    IN  IF n < 10 THEN <<digit[n + 1]>>
                  ELSE str(n \div 10) \o <<digit[(n % 10) + 1]>>

\* the characters of f"{job_id}_batch_{batch_idx}.bin", for name = BatchFile(..)
FileName(name) ==
    Chars(name[1]) \o <<"_", "b", "a", "t", "c", "h", "_">> \o str(name[2])
        \o <<".", "b", "i", "n">>

\* fnmatch of glob.glob: * is any run of characters, ? is any one character,
\* every other character is itself
RECURSIVE fnmatch(_, _)
fnmatch(name, pat) ==
    IF pat = <<>> THEN name = <<>>
    ELSE IF Head(pat) = "*"
         THEN \/ fnmatch(name, Tail(pat))
              \/ name # <<>> /\ fnmatch(Tail(name), pat)
         ELSE /\ name # <<>>
              /\ Head(pat) = "?" \/ Head(pat) = Head(name)
              /\ fnmatch(Tail(name), Tail(pat))

\* glob.glob(os.path.join(DATA_DIR, pattern))
glob(dir, pat) == {name \in DOMAIN dir : fnmatch(FileName(name), pat)}

\* the directory, or the modification times, after os.remove of `removed`
Remove(dir, removed) ==
    IF DOMAIN dir \subseteq removed THEN <<>>
    ELSE [name \in DOMAIN dir \ removed |-> dir[name]]

\* the files cleanup_job removes
cleanup_job(dir, job_id) == glob(dir, Chars(job_id) \o <<"_", "*", ".", "b", "i", "n">>)

\* a faulty variant of OldFiles: the cutoff is max_age_minutes after t
OldFilesAhead(times, files_found, t, max_age_minutes) ==
    {name \in files_found : times[name] < t + max_age_minutes}

\* the files cleanup_old_jobs removes of those its glob found, at time t
OldFiles(times, files_found, t, max_age_minutes) ==
    {name \in files_found : times[name] < t - max_age_minutes}

\* the files cleanup_old_jobs removes at time t
cleanup_old_jobs(dir, times, t, max_age_minutes) ==
    OldFiles(times, glob(dir, <<"*", "_", "*", ".", "b", "i", "n">>), t,
             max_age_minutes)

\* DELETE /api/job/{job_id}
delete_job ==
    /\ pc = "idle"
    /\ \E job_id \in CallerJobIds :
         LET removed == cleanup_job(files, job_id)
         IN  /\ files' = Remove(files, removed)
             /\ mtime' = Remove(mtime, removed)
             /\ resp' = [op |-> "delete", status |-> "success",
                         job_id |-> job_id]
    /\ UNCHANGED <<issued, now>>
    /\ UNCHANGED simVars

\* POST /api/cleanup
cleanup_old_jobs_endpoint ==
    /\ pc = "idle"
    /\ \E max_age_minutes \in MaxAges :
         LET removed == cleanup_old_jobs(files, mtime, now, max_age_minutes)
         IN  /\ files' = Remove(files, removed)
             /\ mtime' = Remove(mtime, removed)
             /\ resp' = [op |-> "cleanup", status |-> "success",
                         deleted_count |-> Cardinality(removed),
                         max_age_minutes |-> max_age_minutes]
    /\ UNCHANGED <<issued, now>>
    /\ UNCHANGED simVars

\* a minute passes
Tick ==
    /\ pc = "idle"
    /\ now < MaxTime
    /\ now' = now + 1
    /\ UNCHANGED <<files, issued, resp, mtime>>
    /\ UNCHANGED simVars

InitStore ==
    /\ files = <<>>
    /\ issued = <<>>
    /\ resp = [op |-> "none"]
    /\ mtime = <<>>
    /\ now = 0

Init ==
    /\ \E m \in Modes, n \in Ns, ms \in Masses, p \in Momenta, sg \in Sigmas,
          bs \in BarrierEdges, be \in BarrierEdges, ti \in TimeInputs :
          \E mf \in MaxFramesOf(m) :
              req = Request(m, n, ms, p, sg, bs, be, ti, mf)
    /\ pc = "start"
    /\ x_full = <<>>
    /\ V = <<>>
    /\ nan = FALSE
    /\ eigh_calls = 0
    /\ num_time_steps = None
    /\ downsample_stride = 0
    /\ step = 0
    /\ frames = <<>>
    /\ result = <<>>
    /\ err = ""
    /\ InitStore

Next ==
    \/ CreateGrid
    \/ BuildPotential
    \/ InitialState
    \/ Hamiltonian
    \/ Eigh
    \/ ResolveSteps
    \/ LoopFrame
    \/ LoopExit
    \/ Encode

Spec == Init /\ [][Next]_vars

\* the service with no simulation call of its own in progress
InitService ==
    /\ req = [mode |-> "none"]
    /\ pc = "idle"
    /\ x_full = <<>>
    /\ V = <<>>
    /\ nan = FALSE
    /\ eigh_calls = 0
    /\ num_time_steps = None
    /\ downsample_stride = 0
    /\ step = 0
    /\ frames = <<>>
    /\ result = <<>>
    /\ err = ""
    /\ InitStore

NextService ==
    \/ quantum_tunneling_alias
    \/ GetBatch
    \/ GetFrame

SpecService == InitService /\ [][NextService]_vars

\* the life of the stored files: jobs are written, deleted and swept as the
\* clock advances
NextStore ==
    \/ SubmitJob
    \/ GetBatch
    \/ GetFrame
    \/ delete_job
    \/ cleanup_old_jobs_endpoint
    \/ Tick

SpecStore == InitService /\ [][NextStore]_vars

----------------------------------------------------------------------------
(* Properties of the simulation engine *)

Returned == pc = "done"
BinaryReturned == req.mode = "binary" /\ pc = "done"
JsonReturned == req.mode = "json" /\ pc = "done"

\* C1: in quantum_tunneling_simulation_binary, for total_steps >= 0 and
\* max_frames >= 1, the emitted step indices are 0, stride, 2*stride, ... in
\* increasing order with stride = total_steps // max_frames when
\* total_steps > max_frames and 1 otherwise; exactly max_frames frames when
\* total_steps > max_frames, every step 0..total_steps-1 otherwise.
C1_Downsampling ==
    (BinaryReturned /\ Val(num_time_steps) >= 0 /\ Val(req.max_frames) >= 1) =>
        LET S == Val(num_time_steps)
            F == Val(req.max_frames)
            stride == IF S > F THEN S \div F ELSE 1
        IN  /\ Len(frames) = (IF S > F THEN F ELSE S)
            /\ \A k \in 1..Len(frames) : frames[k].step = (k - 1) * stride
            /\ \A k \in 1..(Len(frames) - 1) :
                   frames[k].step < frames[k + 1].step

\* a run where downsampling skips steps and the break cuts the range short
C1_Witness ==
    /\ BinaryReturned
    /\ Val(req.max_frames) = 2
    /\ Val(num_time_steps) > 2 * Val(req.max_frames)
    /\ Len(frames) = 2
    /\ frames[2].step = 2

\* the bytes of one float32 array of frame f, as the client reads them
PartBytes(part, f, M) ==
    [j \in 1..(4 * M) |-> <<"f32", <<part, f.step, (j - 1) \div 4>>, (j - 1) % 4>>]

C5_EighOnce ==
    /\ eigh_calls <= 1
    /\ frames # <<>> => eigh_calls = 1
    /\ pc \in {"loop", "encode", "done"} => eigh_calls = 1

\* a finished request of several frames
C5_Witness == Returned /\ Len(frames) >= 2 /\ eigh_calls = 1

\* C6 (as stated): a request with N < 2 fails with InvalidGridError and
\* produces no frames, in both functions.
C6_InvalidGridError ==
    (req.N < 2 /\ pc \in {"failed", "done"}) =>
        pc = "failed" /\ err = "InvalidGridError" /\ frames = <<>>

\* C7 (as stated): a request with sigma <= 0 fails with
\* InvalidParameterError instead of returning a result, in both functions.
C7_InvalidParameterError ==
    (req.sigma <= 0 /\ req.N >= 2 /\ pc = "done") =>
        err = "InvalidParameterError"

\* the grid points the entries of V stand for
GridOfV == IF req.mode = "binary" THEN Inner(x_full) ELSE x_full

\* C8: a grid point has potential V0 if it lies strictly between
\* barrier_start and barrier_end; a point at exactly barrier_start or
\* barrier_end, or outside, has potential 0 (so the potential is 0
\* everywhere when barrier_start >= barrier_end).
C8_OpenBarrier ==
    /\ \A i \in 1..Len(V) :
         LET strictlyInside ==
                 /\ req.barrier_start * req.N < GridOfV[i]
                 /\ GridOfV[i] < req.barrier_end * req.N
         IN  V[i] = (IF strictlyInside
                       THEN (req.momentum * req.momentum) \div (2 * req.mass)
                       ELSE 0)
    /\ req.barrier_start >= req.barrier_end => \A i \in 1..Len(V) : V[i] = 0

\* a potential with a point on each edge of the barrier and one inside
C8_Witness ==
    /\ V # <<>>
    /\ \E i, j, k \in 1..Len(V) :
          /\ GridOfV[i] = req.barrier_start * req.N /\ V[i] = 0
          /\ GridOfV[k] = req.barrier_end * req.N /\ V[k] = 0
          /\ V[j] # 0

\* C9 (as stated): the potential array has exactly N-1 entries, aligned with
\* the interior grid, in the JSON result as well as in the binary simulation.
C9_PotentialInterior ==
    /\ BinaryReturned => Len(V) = req.N - 1
    /\ JsonReturned => /\ Len(result.potential) = req.N - 1
                       /\ Len(result.potential) = Len(result.x_inner)

\* the potential at a grid position (multiplied by N), from the definition
PotentialAt(xN) ==
    IF req.barrier_start * req.N < xN /\ xN < req.barrier_end * req.N
      THEN (req.momentum * req.momentum) \div (2 * req.mass)
      ELSE 0

\* C9 (amended): inside the binary simulation the potential has N-1 entries,
\* entry i the potential at interior point i; the "potential" of the JSON
\* result has N+1 entries, aligned with the full grid "x" (entry i the
\* potential at x[i]), and only its slice [1:-1] is aligned with "x_inner".
C9_PotentialAlignment ==
    /\ BinaryReturned =>
         /\ Len(V) = req.N - 1
         /\ \A i \in 1..Len(V) : V[i] = PotentialAt(Inner(x_full)[i])
    /\ JsonReturned =>
         /\ Len(result.potential) = req.N + 1
         /\ Len(result.potential) = Len(result.x)
         /\ \A i \in 1..Len(result.x) :
                result.potential[i] = PotentialAt(result.x[i])
         /\ Len(result.x_inner) = req.N - 1
         /\ \A i \in 1..Len(result.x_inner) :
                /\ result.x_inner[i] = result.x[i + 1]
                /\ Inner(result.potential)[i] = PotentialAt(result.x_inner[i])

\* a JSON result whose potential is two entries longer than x_inner
C9_Witness ==
    /\ JsonReturned
    /\ req.N >= 3
    /\ Len(result.potential) = Len(result.x_inner) + 2
    /\ \E i \in 1..Len(result.potential) : result.potential[i] # 0

\* the step count of a request: num_time_steps, or floor(t_max / dt)
ClaimedSteps ==
    IF IsNone(req.num_time_steps) THEN req.t_max \div req.dt
    ELSE Val(req.num_time_steps)

\* C10: quantum_wave_packet_simulation with step count S (a count, S >= 0)
\* returns exactly S frames, the k-th (k = 0..S-1) tagged with time k*dt; for
\* dt > 0 the frames are strictly ordered by increasing time and start at
\* time 0; the scenario of 10 steps (t_max = 10 dt) yields exactly 10 frames.
C10_JsonFrames ==
    (JsonReturned /\ ClaimedSteps >= 0) =>
        LET te == result.time_evolution
        IN  /\ Len(te) = ClaimedSteps
            /\ \A k \in 0..(ClaimedSteps - 1) : te[k + 1].time = k * req.dt
            /\ req.dt > 0 =>
                 /\ te # <<>> => te[1].time = 0
                 /\ \A k \in 1..(Len(te) - 1) : te[k].time < te[k + 1].time
            /\ (IsNone(req.num_time_steps) /\ req.dt = 1 /\ req.t_max = 10)
                   => Len(te) = 10

\* the scenario of 10 steps derived from t_max and dt
C10_Witness ==
    /\ JsonReturned
    /\ IsNone(req.num_time_steps) /\ req.dt = 1 /\ req.t_max = 10
    /\ Len(result.time_evolution) = 10
    /\ result.time_evolution[10].time = 9

----------------------------------------------------------------------------
(* Properties of the job store *)

\* the state right after the job endpoint answered a request with a job
JobStored == resp.op = "job" /\ resp.status = 200

\* the n values of frame k of the job request number rid
StoredFrame(rid, k, n) == [i \in 1..n |-> <<rid, k, i - 1>>]

FrameRange == 0..(3 * BATCH_SIZE - 1)

\* C3 (as stated): for a job stored by the job endpoint with total_frames
\* frames of n values each, get_frame(job_id, k, n) returns exactly the n*4
\* bytes of the k-th stored frame for every k in [0, total_frames), read from
\* batch k div BATCH_SIZE at byte offset (k mod BATCH_SIZE)*n*4, and answers
\* 404 for every k >= total_frames.
C3_GetFrame ==
    JobStored =>
        \A k \in FrameRange :
            LET r == get_frame(files, resp.job_id, k, resp.n)
            IN  IF k < resp.frame_count
                  THEN /\ r.status = 200
                       /\ 4 * Len(r.content) = resp.n * 4
                       /\ r.content = StoredFrame(Len(issued), k, resp.n)
                       /\ r.content =
                            FileRead(files[<<resp.job_id, k \div BATCH_SIZE>>],
                                     (k % BATCH_SIZE) * resp.n * 4, resp.n * 4)
                  ELSE r.status = 404

\* the part of C3 about the frames of the job (k < total_frames) alone
C3_StoredFrames ==
    JobStored =>
        \A k \in FrameRange :
            k < resp.frame_count =>
                LET r == get_frame(files, resp.job_id, k, resp.n)
                IN  r.status = 200
                    /\ r.content = StoredFrame(Len(issued), k, resp.n)

\* ceil(total / BATCH_SIZE)
CeilBatches(total) ==
    IF total % BATCH_SIZE = 0 THEN total \div BATCH_SIZE
    ELSE (total \div BATCH_SIZE) + 1

\* C4: the job endpoint splits the total_frames frames of a simulation into
\* ceil(total_frames / BATCH_SIZE) batches indexed from 0; every batch but
\* the last holds exactly BATCH_SIZE frames, the last between 1 and
\* BATCH_SIZE; the batches in index order hold every frame exactly once in
\* the original order; the returned frame_count is the sum of the frames of
\* all batches.  (The batches are the files the request writes, recorded by
\* name in `issued`; their content is read right after the request, through
\* get_batch.)
C4_Batches ==
    \A q \in 1..Len(issued) :
        LET j == issued[q]
            id == j.response.job_id
            total == j.response.frame_count
            n == j.response.n
            nb == CeilBatches(total)
            batch(b) == files[<<id, b>>]
            count(b) == IF b < nb - 1 THEN BATCH_SIZE
                        ELSE total - (nb - 1) * BATCH_SIZE
        IN  /\ j.written = {<<id, b>> : b \in 0..(nb - 1)}
            /\ \A b \in 0..(nb - 1) :
                   count(b) >= 1 /\ count(b) <= BATCH_SIZE
            /\ (nb = 0) = (total = 0)
            /\ (q = Len(issued) /\ JobStored) =>
                 \A b \in 0..(nb - 1) :
                    LET r == get_batch(files, id, b, n)
                    IN  /\ r.status = 200
                        /\ r.content = batch(b)
                        /\ r.X_Frame_Count = count(b)
                        /\ Len(batch(b)) = count(b) * n
                        /\ \A w \in 1..Len(batch(b)) :
                             batch(b)[w] =
                               <<j.rid, b * BATCH_SIZE + ((w - 1) \div n),
                                 (w - 1) % n>>

\* a job of BATCH_SIZE + 1 frames: a full batch and a last batch of one frame
C4_Witness ==
    /\ JobStored
    /\ resp.frame_count = BATCH_SIZE + 1
    /\ resp.n = 2
    /\ Len(files[<<resp.job_id, 0>>]) = BATCH_SIZE * 2
    /\ Len(files[<<resp.job_id, 1>>]) = 2

\* the step machine of quantum_wave_packet_simulation and the function as one
\* call (as the job endpoint uses it) end the same way
EngineAgreesWithFunction ==
    /\ JsonReturned =>
          SimulationError(req) = "" /\ result = quantum_wave_packet_simulation(req)
    /\ (req.mode = "json" /\ pc = "failed") => err = SimulationError(req)

----------------------------------------------------------------------------
(* Properties of the stored files: sweep and deletion *)

\* the step is a sweep, answered with resp'
SweepStep ==
    /\ resp'.op = "cleanup"
    /\ now' = now
    /\ resp' # resp \/ files' # files

\* the step is a deletion, answered with resp'
DeleteStep ==
    /\ resp'.op = "delete"
    /\ now' = now
    /\ resp' # resp \/ files' # files

\* C11: a sweep cleanup_old_jobs(max_age) deletes every batch file whose
\* modification time is older than max_age minutes before the sweep, leaves
\* every younger batch file unchanged and retrievable by get_batch, and
\* returns the number of files it deleted
C11_Sweep ==
    [][SweepStep =>
          LET cutoff_time == now - resp'.max_age_minutes
          IN  /\ \A name \in DOMAIN files :
                    /\ mtime[name] < cutoff_time =>
                          /\ name \notin DOMAIN files'
                          /\ \A n \in GridPoints :
                                get_batch(files', name[1], name[2], n).status = 404
                    /\ mtime[name] > cutoff_time =>
                          /\ name \in DOMAIN files'
                          /\ files'[name] = files[name]
                          /\ mtime'[name] = mtime[name]
                          /\ \A n \in GridPoints :
                                /\ get_batch(files', name[1], name[2], n).status = 200
                                /\ get_batch(files', name[1], name[2], n)
                                      = get_batch(files, name[1], name[2], n)
              /\ DOMAIN files' \subseteq DOMAIN files
              /\ resp'.deleted_count =
                    Cardinality(DOMAIN files \ DOMAIN files')]_vars

\* a sweep has deleted files and a file younger than its cutoff is stored
C11_Witness ==
    /\ resp.op = "cleanup"
    /\ resp.deleted_count >= 2
    /\ resp.max_age_minutes = 1
    /\ \E name \in DOMAIN files : mtime[name] > now - resp.max_age_minutes

\* C12: after delete_job(job_id), for any job_id string of a caller, every
\* get_batch and get_frame call for that job_id answers 404 and the batch
\* files of every other job are as they were (same batches, same bytes)
C12_DeleteJob ==
    [][DeleteStep =>
          LET job_id == resp'.job_id
          IN  /\ \A n \in GridPoints :
                    /\ \A batch_idx \in BatchIndexes :
                          get_batch(files', job_id, batch_idx, n).status = 404
                    /\ \A k \in FrameIndexes :
                          get_frame(files', job_id, k, n).status = 404
              /\ \A name \in DOMAIN files \cup DOMAIN files' :
                    name[1] # job_id =>
                       /\ name \in DOMAIN files
                       /\ name \in DOMAIN files'
                       /\ files'[name] = files[name]]_vars

----------------------------------------------------------------------------
(* Properties of concurrent job requests *)

\* the request that produced a stored float32 word
Producer(word) == word[1]

\* C13: two distinct job requests never write the same job+batch file, and
\* every stored batch of a job_id holds only frames of the single request
\* that was answered with that job_id
C13_NoSharedFile ==
    /\ \A p, q \in 1..Len(issued) :
          p # q => issued[p].written \cap issued[q].written = {}
    /\ \A name \in DOMAIN files :
          \A q \in 1..Len(issued) :
             issued[q].response.job_id = name[1] =>
                \A i \in 1..Len(files[name]) : Producer(files[name][i]) = q

====
